---- MODULE Spec2Model ----
(***************************************************************************)
(* State-machine model of the pgvector vector store                        *)
(* (src/src/vectorstore/pgvector/pgvector.rs): the option resolvers,       *)
(* add_documents and similarity_search, together with the two backend      *)
(* tables they touch.                                                      *)
(*                                                                         *)
(* Numbers.  A float is a fixed-point integer in thousandths (1.0 is 1000, *)
(* -0.1 is -100).  A vector component as the embedder returns it (f64) is  *)
(* an integer; the cast to f32 keeps only the even integers (see AsF32).   *)
(* Option<T> is a sequence: <<>> is None and <<v>> is Some(v).             *)
(* A serde_json Value is a pair <<tag, payload>>.                          *)
(***************************************************************************)
EXTENDS Integers, Sequences, FiniteSets, TLC

\* ---------------------------------------------------------------- bounds
MaxDocs == 2        \* longest document batch
MaxRows == 2        \* most rows of the table vector_docs
MaxDrops == 4       \* calls of drop_tables in one behaviour
MaxItems == 62      \* most items of a search result

\* ---------------------------------------------------------------- values
None == <<>>
Some(v) == <<v>>
is_some(o) == o # <<>>
unwrap(o) == o[1]

Min(a, b) == IF a <= b THEN a ELSE b

RECURSIVE SeqsUpTo(_, _)
\* every sequence over S of length 0..n
SeqsUpTo(S, n) ==
    IF n = 0 THEN {<<>>}
    ELSE LET shorter == SeqsUpTo(S, n - 1)
         IN  shorter \cup {Append(s, x) : s \in {t \in shorter : Len(t) = n - 1}, x \in S}

\* serde_json::Value
JString(s) == <<"String", s>>
JNumber(n) == <<"Number", n>>
JArray(elems) == <<"Array", elems>>
JObject(pairs) == <<"Object", pairs>>
IsScalar(v) == v[1] \in {"String", "Number", "Bool", "Null"}

\* ---------------------------------------------------------------- errors
\* The errors the store itself raises, by the message the code gives them.
UnsupportedOption == "score_threshold, filters, and name_space are not supported in pgvector"
EmbeddingCountMismatch == "Number of vectors and documents do not match"
\* Errors passed on with `?` from the embedder and from sqlx.
EmbeddingProviderFailure == "embedder error"
BackendFailure == "sqlx error"
\* The errors of the resolvers.
InvalidFilterShape == "Invalid filters format"
InvalidScoreThreshold == "Invalid score threshold"

\* ---------------------------------------------------------------- the store
\* Store fields fixed at construction.
collection_name == "docs"
collection_uuid == "collection-1"

\* Store::vector_dimensions: the dimensionality the collection was created with
vector_dimensions == 2

\* The embedding column of the embedding table is created with
\* vector_dimensions dimensions: the backend accepts a vector of that length
\* and no other.
ColumnAccepts(vector) == Len(vector) = vector_dimensions

\* The embedders a call can see: the store's own and per-call overrides.
\* An embedder is an external capability, a function of the text; they
\* differ on every text.  Components are f64.  The override "ragged" is a
\* model of another dimensionality on every text but one.
EmbedText(e, text) ==
    IF e = "store"
    THEN (IF text \in {"Paris is the capital of France", "capital of France"}
          THEN <<2, 0>> ELSE <<1, 2>>)
    ELSE IF e = "ragged"
    THEN (IF text \in {"Paris is the capital of France", "capital of France"}
          THEN <<2, 2>> ELSE <<2, 0, 2>>)
    ELSE (IF text \in {"Paris is the capital of France", "capital of France"}
          THEN <<0, 2>> ELSE <<2, 1>>)

\* x as f32: the nearest representable value, ties to even.  f32 represents
\* the even integers of this model, so 1 is a tie between 0 and 2.
AsF32(x) ==
    IF x % 2 = 0 THEN x
    ELSE IF ((x - 1) \div 2) % 2 = 0 THEN x - 1 ELSE x + 1

\* vector.into_iter().map(|x| x as f32).collect() wrapped in Vector::from
VectorFrom(v) == [i \in 1..Len(v) |-> AsF32(v[i])]

\* self.embedder unless the options carry an override
ActiveEmbedder(opt) == IF is_some(opt.embedder) THEN unwrap(opt.embedder) ELSE "store"

\* The replies embed_documents can give: a failure, the vectors of the texts
\* in order, or a list that is too short (any prefix) or too long (one more).
EmbedDocumentsReplies(e, texts) ==
    LET right == [i \in 1..Len(texts) |-> EmbedText(e, texts[i])]
    IN  {<<"Err", EmbeddingProviderFailure>>}
            \cup {<<"Ok", SubSeq(right, 1, n)>> : n \in 0..Len(texts)}
            \cup {<<"Ok", Append(right, EmbedText(e, ""))>>}

\* The replies embed_query can give.
EmbedQueryReplies(e, query) ==
    {<<"Err", EmbeddingProviderFailure>>, <<"Ok", EmbedText(e, query)>>}

\* ---------------------------------------------------------------- resolvers
\* Store::get_filters: Ok(map) for an object or no filters, Err otherwise.
\* The HashMap it collects is the set of the object's (key, value) pairs.
get_filters(opt) ==
    IF opt.filters = None THEN <<"Ok", {}>>
    ELSE IF unwrap(opt.filters)[1] = "Object"
         THEN LET map == unwrap(opt.filters)[2]
              IN  <<"Ok", {map[i] : i \in 1..Len(map)}>>
         ELSE <<"Err", InvalidFilterShape>>

\* Store::get_name_space
get_name_space(opt) ==
    IF is_some(opt.name_space) THEN unwrap(opt.name_space) ELSE collection_name

\* Store::get_score_threshold
get_score_threshold(opt) ==
    IF is_some(opt.score_threshold)
    THEN IF unwrap(opt.score_threshold) < 0 \/ unwrap(opt.score_threshold) > 1000
         THEN <<"Err", InvalidScoreThreshold>>
         ELSE <<"Ok", unwrap(opt.score_threshold)>>
    ELSE <<"Ok", 0>>

\* ---------------------------------------------------------------- inputs
\* VecStoreOptions
Options(ns, st, f, e) ==
    [name_space |-> ns, score_threshold |-> st, filters |-> f, embedder |-> e]
DefaultOptions == Options(None, None, None, None)

\* Document { page_content, metadata }: metadata is a HashMap, a set of pairs.
Document(text, meta) == [page_content |-> text, metadata |-> meta]
Documents ==
    { Document("Paris is the capital of France", {<<"lang", JString("fr")>>}),
      Document("Lyon is a city in France", {}) }
Batches == SeqsUpTo(Documents, MaxDocs)

RECURSIVE SetToSeq(_)
SetToSeq(S) ==
    IF S = {} THEN <<>>
    ELSE LET x == CHOOSE y \in S : TRUE IN <<x>> \o SetToSeq(S \ {x})

\* json!(&doc.metadata): the map as a JSON object
JsonOfMetadata(meta) == JObject(SetToSeq(meta))

\* ---------------------------------------------------------------- state
VARIABLES
    embedding_table,   \* committed rows of the table named embedder_table_name
    vector_docs,       \* rows of the table vector_docs, in storage order
    calls,             \* the add_documents calls, by call slot
    next_uuid,         \* the next identity Uuid::new_v4 returns
    search,            \* the last similarity_search call and what it returned
    resolved,          \* the last resolver call and what it returned
    tables,            \* the tables of the store that exist in the backend
    drops,             \* the drop_tables calls made and the one in flight
    tool               \* the last run of the DataForSeo tool

vars == <<embedding_table, vector_docs, calls, next_uuid, search, resolved,
          tables, drops, tool>>

\* what the vector store's calls leave alone: the tool
tool_vars == <<tool>>
\* what add_documents, similarity_search and the resolvers leave alone
teardown_vars == <<tables, drops>>

\* The add_documents calls of a behaviour: each slot is one call.
Calls == {"call-1", "call-2"}

IdleCall ==
    [pc |-> "idle", docs |-> <<>>, opt |-> DefaultOptions, vectors |-> None,
     ids |-> <<>>, tx |-> <<>>, result |-> None, embed_calls |-> 0, began |-> FALSE]

Range(s) == {s[i] : i \in 1..Len(s)}

\* ---------------------------------------------------------------- backend
\* The two tables of a store: embedder_table_name and collection_table_name.
StoreTables == {"embedder_table", "collection_table"}

\* No drop_tables call yet.
NoDrops == [pc |-> "idle", results |-> <<>>, failed |-> <<>>]

\* The tool has not run.
NoTool == [pc |-> "idle", input |-> <<"Null", 0>>, requests |-> 0, response |-> None,
           result |-> None]

\* A row bound without the document's metadata.
EmbeddedRowNoMetadata(id, doc, vector) ==
    [uuid |-> id, document |-> doc.page_content, embedding |-> VectorFrom(vector),
     cmetadata |-> JObject(<<>>), collection_id |-> collection_uuid]

\* The row one INSERT writes for a document and its vector.
EmbeddedRow(id, doc, vector) ==
    [uuid |-> id, document |-> doc.page_content, embedding |-> VectorFrom(vector),
     cmetadata |-> JsonOfMetadata(doc.metadata), collection_id |-> collection_uuid]

\* A commit that makes only the first row of the transaction durable.
CommitFirstRow(table, tx) == IF tx = <<>> THEN table ELSE table \cup {tx[1]}

\* tx.commit(): the rows written in the transaction become table rows.
Commit(table, tx) == table \cup Range(tx)

\* A transaction that is not one: every INSERT is visible as soon as it runs.
RollbackKeepsRows(table, tx) == table \cup Range(tx)

\* The transaction is dropped without commit (an early return through `?`):
\* sqlx rolls it back and the table keeps its rows.
Rollback(table, tx) == table

\* ---------------------------------------------------------------- add_documents
\* docs.iter().map(|d| d.page_content.clone()).collect()
Texts(docs) == [i \in 1..Len(docs) |-> docs[i].page_content]

\* An option check that forgets the namespace.
HasUnsupportedOptionButNamespace(opt) ==
    is_some(opt.score_threshold) \/ is_some(opt.filters)

\* Line 112: an option add_documents does not support is set.
HasUnsupportedOption(opt) ==
    is_some(opt.score_threshold) \/ is_some(opt.filters) \/ is_some(opt.name_space)

\* A count check that catches only a reply that is too short.
CountMismatchTooFew(vectors, docs) == Len(vectors) < Len(docs)

\* vectors.len() != docs.len()
CountMismatch(vectors, docs) == Len(vectors) # Len(docs)

\* An embedder called once for every document.
EmbedRoundTripsPerDocument(docs) == Len(docs)

\* Line 122: one embed_documents call for the whole batch, not retried.
EmbedRoundTrips(docs) == 1

\* docs.iter().zip(vectors.iter()): the number of pairs the loop visits
ZipLen(docs, vectors) == Min(Len(docs), Len(vectors))

Returned(call, res) == [call EXCEPT !.pc = "done", !.result = Some(res), !.tx = <<>>]

\* Lines 112-131: the option check, the one embed_documents call, the count
\* check and pool.begin().
add_documents_call(c, docs, opt, reply, begin_ok) ==
    /\ calls[c].pc = "idle"
    /\ reply \in EmbedDocumentsReplies(ActiveEmbedder(opt), Texts(docs))
    /\ LET fresh == [IdleCall EXCEPT !.docs = docs, !.opt = opt] IN
       IF HasUnsupportedOption(opt)
       THEN calls' = [calls EXCEPT ![c] = Returned(fresh, <<"Err", UnsupportedOption>>)]
       ELSE LET embedded == [fresh EXCEPT !.embed_calls = EmbedRoundTrips(docs)] IN
            IF reply[1] = "Err"
            THEN calls' = [calls EXCEPT ![c] = Returned(embedded, reply)]
            ELSE IF CountMismatch(reply[2], docs)
            THEN calls' = [calls EXCEPT ![c] =
                               Returned([embedded EXCEPT !.vectors = Some(reply[2])],
                                        <<"Err", EmbeddingCountMismatch>>)]
            ELSE IF ~begin_ok
            THEN calls' = [calls EXCEPT ![c] =
                               Returned([embedded EXCEPT !.vectors = Some(reply[2])],
                                        <<"Err", BackendFailure>>)]
            ELSE calls' = [calls EXCEPT ![c] =
                               [embedded EXCEPT !.vectors = Some(reply[2]), !.pc = "tx",
                                                !.began = TRUE]]
    /\ UNCHANGED <<embedding_table, vector_docs, next_uuid, search, resolved, teardown_vars, tool_vars>>

\* Lines 135-154, one turn of the loop: a fresh identity is pushed, then the
\* INSERT runs inside the transaction; a failed INSERT returns through `?`.
add_documents_insert(c, insert_ok) ==
    /\ calls[c].pc = "tx"
    /\ Len(calls[c].ids) < ZipLen(calls[c].docs, unwrap(calls[c].vectors))
    /\ LET call == calls[c]
           i == Len(call.ids) + 1
           id == next_uuid
           pushed == [call EXCEPT !.ids = Append(call.ids, id)]
       IN  /\ next_uuid' = next_uuid + 1
           /\ IF insert_ok /\ ColumnAccepts(unwrap(call.vectors)[i])
              THEN /\ calls' = [calls EXCEPT ![c] =
                        [pushed EXCEPT !.tx = Append(call.tx, EmbeddedRow(id, call.docs[i], unwrap(call.vectors)[i]))]]
                   /\ UNCHANGED embedding_table
              ELSE /\ calls' = [calls EXCEPT ![c] = Returned(pushed, <<"Err", BackendFailure>>)]
                   /\ embedding_table' = Rollback(embedding_table, call.tx)
    /\ UNCHANGED <<vector_docs, search, resolved, teardown_vars, tool_vars>>

\* Lines 156-158: tx.commit() and the return of the identities.
add_documents_commit(c, commit_ok) ==
    /\ calls[c].pc = "tx"
    /\ Len(calls[c].ids) = ZipLen(calls[c].docs, unwrap(calls[c].vectors))
    /\ LET call == calls[c] IN
       IF commit_ok
       THEN /\ embedding_table' = Commit(embedding_table, call.tx)
            /\ calls' = [calls EXCEPT ![c] = Returned(call, <<"Ok", call.ids>>)]
       ELSE /\ embedding_table' = Rollback(embedding_table, call.tx)
            /\ calls' = [calls EXCEPT ![c] = Returned(call, <<"Err", BackendFailure>>)]
    /\ UNCHANGED <<vector_docs, next_uuid, search, resolved, teardown_vars, tool_vars>>

\* The caller drops the future of a call that holds a transaction, at one of
\* the awaits of lines 149-156.  Dropping `tx` without a completed commit rolls
\* the transaction back.  After the last INSERT the call may be suspended in
\* tx.commit().await: the backend may have applied the COMMIT whose reply the
\* dropped future never reads.
add_documents_cancel(c, commit_applied) ==
    /\ calls[c].pc = "tx"
    /\ LET call == calls[c]
           at_commit == Len(call.ids) = ZipLen(call.docs, unwrap(call.vectors))
       IN  /\ calls' = [calls EXCEPT ![c] = [call EXCEPT !.pc = "cancelled", !.tx = <<>>]]
           /\ embedding_table' = IF at_commit /\ commit_applied
                                    THEN Commit(embedding_table, call.tx)
                                    ELSE Rollback(embedding_table, call.tx)
    /\ UNCHANGED <<vector_docs, next_uuid, search, resolved, teardown_vars, tool_vars>>

\* ---------------------------------------------------------------- drop_tables
\* DROP TABLE t: an error when the table does not exist.
DropTable(tbls, t) ==
    IF t \in tbls THEN <<"Ok", tbls \ {t}>> ELSE <<"Err", BackendFailure>>

\* DROP TABLE IF EXISTS t
DropTableIfExists(tbls, t) == <<"Ok", tbls \ {t}>>

\* drop_tables returns res; `failed` records which statement of this call the
\* backend failed for a reason of its own (0: none).
DropsReturned(res, backend_failed) ==
    [pc |-> "idle", results |-> Append(drops.results, res),
     failed |-> Append(drops.failed, backend_failed)]

\* Lines 80-85: the first statement drops the embedding table, and its rows
\* with it; a failed statement returns through `?`.
drop_tables_embedder(stmt_ok) ==
    /\ drops.pc = "idle"
    /\ Len(drops.results) < MaxDrops
    /\ LET dropped == DropTableIfExists(tables, "embedder_table") IN
       IF ~stmt_ok
       THEN /\ drops' = DropsReturned(<<"Err", BackendFailure>>, 1)
            /\ UNCHANGED <<tables, embedding_table>>
       ELSE IF dropped[1] = "Err"
       THEN /\ drops' = DropsReturned(dropped, 0)
            /\ UNCHANGED <<tables, embedding_table>>
       ELSE /\ drops' = [drops EXCEPT !.pc = "collection"]
            /\ tables' = dropped[2]
            /\ embedding_table' = {}
    /\ UNCHANGED <<vector_docs, calls, next_uuid, search, resolved, tool_vars>>

\* Lines 87-94: the second statement drops the collection table, then Ok(()).
drop_tables_collection(stmt_ok) ==
    /\ drops.pc = "collection"
    /\ LET dropped == DropTableIfExists(tables, "collection_table") IN
       IF ~stmt_ok
       THEN /\ drops' = DropsReturned(<<"Err", BackendFailure>>, 2)
            /\ UNCHANGED tables
       ELSE IF dropped[1] = "Err"
       THEN /\ drops' = DropsReturned(dropped, 0)
            /\ UNCHANGED tables
       ELSE /\ drops' = DropsReturned(<<"Ok", <<>>>>, 0)
            /\ tables' = dropped[2]
    /\ UNCHANGED <<embedding_table, vector_docs, calls, next_uuid, search, resolved, tool_vars>>

\* ---------------------------------------------------------------- similarity_search
RECURSIVE ISqrtIn(_, _, _)
\* the integer square root of n, known to lie in lo..hi
ISqrtIn(n, lo, hi) ==
    IF lo >= hi THEN lo
    ELSE LET mid == (lo + hi + 1) \div 2
         IN  IF mid * mid <= n THEN ISqrtIn(n, mid, hi) ELSE ISqrtIn(n, lo, mid - 1)

Dot(a, b) == LET RECURSIVE Sum(_)
                 Sum(i) == IF i = 0 THEN 0 ELSE a[i] * b[i] + Sum(i - 1)
             IN  Sum(Len(a))

\* a <=> b, pgvector's cosine distance, in thousandths: 1 - cos(a, b), which
\* is NaN when either vector has norm zero.  NaN is written -1.
IsNaN(d) == d < 0
CosineDistance(a, b) ==
    LET dot == Dot(a, b)
        norms == Dot(a, a) * Dot(b, b)
    IN  IF norms = 0 THEN -1
        ELSE LET cos == ISqrtIn((1000000 * dot * dot) \div norms, 0, 1000)
             IN  IF dot >= 0 THEN 1000 - cos ELSE 1000 + cos

\* ORDER BY distance ASC: the backend's order on float8, where NaN sorts
\* after every number.
DistanceLeq(d1, d2) == IsNaN(d2) \/ (~IsNaN(d1) /\ d1 <= d2)

\* A usize n is written in three parts, n = hi * 2^32 + b31 * 2^31 + lo with
\* lo < 2^31, so that every number the model computes with fits 32 bits.
Usize(hi, b31, lo) == [hi |-> hi, b31 |-> b31, lo |-> lo]

\* limit as i32: the low 32 bits of the usize, read as a signed integer
AsI32(n) == IF n.b31 = 1 THEN (n.lo - 2147483647) - 1 ELSE n.lo

\* A SELECT without its WHERE clause.
WhereAnyNamespace(table, namespace) == 1..Len(table)

\* WHERE namespace = $2
WhereNamespace(table, namespace) ==
    {i \in 1..Len(table) : table[i].namespace = namespace}

\* A SELECT without ORDER BY: the rows in any order.
OrderByNothing(table, rows, q) ==
    {p \in [1..Cardinality(rows) -> rows] :
        \A i, j \in 1..Cardinality(rows) : i # j => p[i] # p[j]}

\* ORDER BY distance ASC: an arrangement of the rows in non-decreasing
\* distance; rows at the same distance come in an order the backend chooses.
OrderByDistance(table, rows, q) ==
    {p \in [1..Cardinality(rows) -> rows] :
        /\ \A i, j \in 1..Cardinality(rows) : i # j => p[i] # p[j]
        /\ \A i \in 1..(Cardinality(rows) - 1) :
               DistanceLeq(CosineDistance(table[p[i]].vectors, q),
                           CosineDistance(table[p[i + 1]].vectors, q))}

\* LIMIT $3
Limit(p, n) == SubSeq(p, 1, Min(n, Len(p)))

\* The answers the backend can give to the SELECT (lines 169-181): row
\* numbers of vector_docs, nearest first.
Select(table, q, namespace, n) ==
    {Limit(p, n) : p \in OrderByDistance(table, WhereNamespace(table, namespace), q)}

\* Lines 197-213: a fetched row as a Document.
DocumentOfRow(table, i, q) ==
    [page_content |-> table[i].content,
     metadata |-> {<<"namespace", JString(table[i].namespace)>>},
     score |-> CosineDistance(table[i].vectors, q)]

\* The namespace the search is scoped to (line 167).
SearchNamespace(opt) ==
    IF is_some(opt.name_space) THEN unwrap(opt.name_space) ELSE "default"

\* The embedder that embeds the query (line 183).
SearchEmbedder(opt) == "store"

NoSearch ==
    [pc |-> "none", query |-> "", limit |-> Usize(0, 0, 0), opt |-> DefaultOptions, namespace |-> "",
     embed_calls |-> 0, backend_calls |-> 0, query_vector |-> None, rows |-> <<>>,
     result |-> None]

\* A search that keeps what it was asked: it stores the embedded query as a
\* row of the table it reads.
similarity_search_storing_query(query, limit, opt, reply, fetch_ok) ==
    /\ reply \in EmbedQueryReplies(SearchEmbedder(opt), query)
    /\ search' = [NoSearch EXCEPT !.pc = "done", !.query = query, !.limit = limit, !.opt = opt,
                                  !.namespace = SearchNamespace(opt), !.embed_calls = 1,
                                  !.result = Some(<<"Err", BackendFailure>>)]
    /\ vector_docs' = IF reply[1] = "Ok" /\ fetch_ok
                      THEN Append(vector_docs, [content |-> query,
                                                namespace |-> SearchNamespace(opt),
                                                vectors |-> VectorFrom(reply[2])])
                      ELSE vector_docs
    /\ UNCHANGED <<embedding_table, calls, next_uuid, resolved, teardown_vars, tool_vars>>

\* similarity_search, lines 161-216.  reply is what embed_query answers,
\* fetch_ok whether the backend answers the SELECT.
similarity_search(query, limit, opt, reply, fetch_ok) ==
    LET namespace == SearchNamespace(opt)
        started == [NoSearch EXCEPT !.pc = "done", !.query = query, !.limit = limit,
                                    !.opt = opt, !.namespace = namespace, !.embed_calls = 1]
    IN  /\ reply \in EmbedQueryReplies(SearchEmbedder(opt), query)
        /\ IF reply[1] = "Err"
           THEN search' = [started EXCEPT !.result = Some(reply)]
           ELSE LET q == VectorFrom(reply[2])
                    fetched == [started EXCEPT !.query_vector = Some(q), !.backend_calls = 1]
                IN  IF ~fetch_ok \/ AsI32(limit) < 0
                    THEN search' = [fetched EXCEPT !.result = Some(<<"Err", BackendFailure>>)]
                    ELSE \E rows \in Select(vector_docs, q, namespace, AsI32(limit)) :
                            search' = [fetched EXCEPT
                                !.rows = rows,
                                !.result = Some(<<"Ok",
                                    [k \in 1..Len(rows) |-> DocumentOfRow(vector_docs, rows[k], q)]>>)]
        /\ UNCHANGED <<embedding_table, vector_docs, calls, next_uuid, resolved, teardown_vars, tool_vars>>

\* ---------------------------------------------------------------- resolver calls
NoResolve == [fn |-> "none", opt |-> DefaultOptions, result |-> None]

resolve_filters(opt) ==
    /\ resolved' = [fn |-> "get_filters", opt |-> opt, result |-> Some(get_filters(opt))]
    /\ UNCHANGED <<embedding_table, vector_docs, calls, next_uuid, search, teardown_vars, tool_vars>>

resolve_name_space(opt) ==
    /\ resolved' = [fn |-> "get_name_space", opt |-> opt, result |-> Some(get_name_space(opt))]
    /\ UNCHANGED <<embedding_table, vector_docs, calls, next_uuid, search, teardown_vars, tool_vars>>

resolve_score_threshold(opt) ==
    /\ resolved' = [fn |-> "get_score_threshold", opt |-> opt,
                    result |-> Some(get_score_threshold(opt))]
    /\ UNCHANGED <<embedding_table, vector_docs, calls, next_uuid, search, teardown_vars, tool_vars>>

\* ---------------------------------------------------------------- DataForSeo
\* serde_json::Value, the variants the tool tells apart.  A Number is a
\* PosInt (u64), a NegInt (i64 below zero) or a Float (f64).
JNull == <<"Null", 0>>
JPosInt(n) == <<"PosInt", n>>
JNegInt(n) == <<"NegInt", n>>
JFloat(n) == <<"Float", n>>

\* Value::as_u64: Some for a PosInt, None for every other value
as_u64(v) == IF v[1] = "PosInt" THEN Some(v[2]) ELSE None

\* Value::as_str
as_str(v) == IF v[1] = "String" THEN Some(v[2]) ELSE None

unwrap_or(o, default) == IF is_some(o) THEN unwrap(o) ELSE default

\* Option<&Vec<T>>::first of an as_array() result
first(array) == IF is_some(array) /\ unwrap(array) # <<>> THEN Some(unwrap(array)[1]) ELSE None

\* The errors of the tool, as the pieces of their messages.
InputNotString == <<"Input should be a string">>
ApiError(message) == <<"API error: ", message>>
NoValidResults == <<"No valid results found in the response structure">>
RequestFailure == <<"reqwest error">>

\* A response, as far as process_dataforseo_response reads it: tasks, result
\* and items are None where as_array() gives None.
Response(status_code, status_message, tasks) ==
    [status_code |-> status_code, status_message |-> status_message, tasks |-> tasks]
Task(result) == [result |-> result]
SearchResult(items) == [items |-> items]
Item(title, snippet) == [title |-> title, snippet |-> snippet]

\* format!("Title: {}\nSnippet: {}\n", title, snippet), as its pieces
FormatItem(title, snippet) == <<"Title: ", title, "\nSnippet: ", snippet, "\n">>

RECURSIVE Join(_, _)
\* organic_results.join(sep), as the pieces in order
Join(parts, sep) ==
    IF parts = <<>> THEN <<>>
    ELSE IF Len(parts) = 1 THEN parts[1]
    ELSE parts[1] \o <<sep>> \o Join(Tail(parts), sep)

\* A loop that stops one result late.
ReachedCapLate(n) == n > 30

\* Line 100: organic_results.len() >= 30
ReachedCap(n) == n >= 30

RECURSIVE CollectOrganic(_, _, _)
\* Lines 93-104: the loop over items from item i on, organic_results so far.
CollectOrganic(items, i, organic_results) ==
    IF i > Len(items) THEN organic_results
    ELSE LET title == as_str(items[i].title) IN
         IF is_some(title)
         THEN LET snippet == unwrap_or(as_str(items[i].snippet), "")
                  pushed == Append(organic_results, FormatItem(unwrap(title), snippet))
              IN  IF ReachedCap(Len(pushed)) THEN pushed
                  ELSE CollectOrganic(items, i + 1, pushed)
         ELSE CollectOrganic(items, i + 1, organic_results)

\* Lines 68-116.
process_dataforseo_response(res) ==
    LET status_code == as_u64(res.status_code) IN
    IF is_some(status_code) /\ unwrap(status_code) # 20000
    THEN <<"Err", ApiError(unwrap_or(as_str(res.status_message), "Unknown error"))>>
    ELSE LET first_task == first(res.tasks)
             first_result == IF is_some(first_task) THEN first(unwrap(first_task).result) ELSE None
             items == IF is_some(first_result) THEN unwrap(first_result).items ELSE None
             organic_results == IF is_some(items) THEN CollectOrganic(unwrap(items), 1, <<>>)
                                ELSE <<>>
         IN  IF organic_results # <<>>
             THEN <<"Ok", Join(organic_results, "\n")>>
             ELSE <<"Err", NoValidResults>>

\* Tool::run, lines 133-136, with simple_search, lines 38-65: send_ok is
\* whether the request is answered with a JSON body, res that body.
run(input, send_ok, res) ==
    /\ tool.pc = "idle"
    /\ LET query == as_str(input)
           ran == [NoTool EXCEPT !.pc = "done", !.input = input]
       IN  IF ~is_some(query)
           THEN tool' = [ran EXCEPT !.result = Some(<<"Err", InputNotString>>)]
           ELSE IF ~send_ok
           THEN tool' = [ran EXCEPT !.requests = 1, !.result = Some(<<"Err", RequestFailure>>)]
           ELSE tool' = [ran EXCEPT !.requests = 1, !.response = Some(res),
                                    !.result = Some(process_dataforseo_response(res))]
    /\ UNCHANGED <<embedding_table, vector_docs, calls, next_uuid, search, resolved, teardown_vars>>

\* ---------------------------------------------------------------- input sets
\* What the tool can be given and what the API can answer.
ToolInputs == {JString("Who is the President of Peru"), JNull, JPosInt(7), JObject(<<>>)}

StatusCodes ==
    {JNull, JPosInt(20000), JPosInt(40101), JNegInt(-1), JFloat(20000), JFloat(40101),
     JString("20000")}
StatusMessages == {JNull, JString("Ok.")}

\* item i of a list of the given kind
ItemOfKind(kind, i) ==
    CASE kind = "titled" -> Item(JString(ToString(i)), JString(ToString(i + 100)))
      [] kind = "no snippet" -> Item(JString(ToString(i)), JNull)
      [] kind = "odd untitled" ->
            Item(IF i % 2 = 1 THEN JNull ELSE JString(ToString(i)), JString(ToString(i + 100)))
      [] kind = "numbers" ->
            Item(IF i % 3 = 0 THEN JPosInt(i) ELSE JString(ToString(i)), JPosInt(i))
      [] OTHER -> Item(JNull, JString(ToString(i + 100)))
ItemKinds == {"titled", "no snippet", "odd untitled", "numbers", "untitled"}
ItemLists ==
    {[i \in 1..n |-> ItemOfKind(kind, i)] : n \in {0, 1, 2, 29, 30, 31, MaxItems}, kind \in ItemKinds}

\* the shapes of `tasks`: missing, empty, without results, and with item
\* lists in the first result of the first task or only further on
TaskShapes ==
    {None, Some(<<>>), Some(<<Task(None)>>), Some(<<Task(Some(<<>>))>>),
     Some(<<Task(Some(<<SearchResult(None)>>))>>)}
      \cup {Some(<<Task(Some(<<SearchResult(Some(items))>>))>>) : items \in ItemLists}
      \cup {Some(<<Task(Some(<<SearchResult(None), SearchResult(Some(items))>>))>>) :
                items \in {[i \in 1..2 |-> ItemOfKind("titled", i)]}}
      \cup {Some(<<Task(None), Task(Some(<<SearchResult(Some(items))>>))>>) :
                items \in {[i \in 1..2 |-> ItemOfKind("titled", i)]}}
Responses ==
    {Response(c, m, t) : c \in StatusCodes, m \in StatusMessages, t \in TaskShapes}

\* Rows the table vector_docs can hold: content, namespace, vectors (f32).
VectorDocsRows ==
    LET Row(c, n, v) == [content |-> c, namespace |-> n, vectors |-> v]
    IN  << Row("Paris is the capital of France", "default", <<2, 0>>),
           Row("Lyon is a city in France", "default", <<0, 2>>),
           Row("Paris is the capital of France", "docs", <<2, 0>>),
           Row("Lyon is a city in France", "docs", <<0, 2>>),
           Row("France", "default", <<2, 2>>),
           Row("", "default", <<0, 0>>),
           Row("France", "docs", <<2, 2>>),
           Row("", "docs", <<0, 0>>) >>

\* Every content of vector_docs of at most n of the given rows; the order in
\* which rows are stored does not matter to a SELECT, so one order stands
\* for all.
Tables(rows, n) ==
    {[i \in 1..Len(ix) |-> rows[ix[i]]] :
        ix \in {s \in SeqsUpTo(1..Len(rows), n) : \A i \in 1..(Len(s) - 1) : s[i] <= s[i + 1]}}

\* A row the embedding table holds before the first call.
ExistingRow ==
    [uuid |-> 0, document |-> "Nice is a city in France", embedding |-> <<2, 2>>,
     cmetadata |-> JObject(<<>>), collection_id |-> collection_uuid]

NameSpaces == {None, Some("docs"), Some("default"), Some("")}
ScoreThresholds == {None, Some(-100), Some(0), Some(500), Some(1000), Some(1100)}
Filters ==
    { None,
      Some(JObject(<<>>)),
      Some(JObject(<< <<"namespace", JString("docs")>> >>)),
      Some(JObject(<< <<"lang", JString("fr")>>, <<"year", JNumber(2024)>> >>)),
      Some(JObject(<< <<"lang", JObject(<< <<"code", JString("fr")>> >>)>> >>)),
      Some(JObject(<< <<"lang", JArray(<<JString("fr"), JString("en")>>)>> >>)),
      Some(JArray(<<JString("fr")>>)),
      Some(JString("fr")) }
EmbedderOverrides == {None, Some("override")}

\* every combination of option values
AllOptions ==
    {Options(ns, st, f, e) :
        ns \in NameSpaces, st \in ScoreThresholds, f \in Filters, e \in EmbedderOverrides}

\* the options that differ from the default in at most one field
SingleOptions ==
    {o \in AllOptions :
        Cardinality({f \in {"name_space", "score_threshold", "filters", "embedder"} :
                        is_some(o[f])}) <= 1}

\* one option of each kind
FewOptions ==
    { DefaultOptions,
      Options(Some("docs"), None, None, None),
      Options(None, Some(500), None, None),
      Options(None, None, Some(JObject(<< <<"namespace", JString("docs")>> >>)), None),
      Options(None, None, None, Some("override")) }

Queries == {"capital of France", "city in France"}
Limits == {Usize(0, 0, 0), Usize(0, 0, 1), Usize(0, 0, 2), Usize(0, 1, 0), Usize(1, 0, 1)}

\* ---------------------------------------------------------------- specifications
NoCalls ==
    /\ calls = [c \in Calls |-> IdleCall]
    /\ next_uuid = 1
    /\ search = NoSearch
    /\ resolved = NoResolve
    /\ drops = NoDrops
    /\ tool = NoTool

InitStore ==
    /\ embedding_table \in {{}, {ExistingRow}}
    /\ tables = StoreTables
    /\ NoCalls

AddDocuments(slots, options) ==
    \/ \E c \in slots, docs \in Batches, opt \in options, begin_ok \in BOOLEAN :
         \E reply \in EmbedDocumentsReplies(ActiveEmbedder(opt), Texts(docs)) :
            add_documents_call(c, docs, opt, reply, begin_ok)
    \/ \E c \in slots, insert_ok \in BOOLEAN : add_documents_insert(c, insert_ok)
    \/ \E c \in slots, commit_ok \in BOOLEAN : add_documents_commit(c, commit_ok)

\* A search changes nothing but its own record, which it overwrites, so a
\* second search reaches no state a first search does not: one search per
\* behaviour reaches them all.
SimilaritySearch(queries, limits, options) ==
    /\ search.pc = "none"
    /\ \E query \in queries, limit \in limits, opt \in options, fetch_ok \in BOOLEAN :
          \E reply \in EmbedQueryReplies(SearchEmbedder(opt), query) :
             similarity_search(query, limit, opt, reply, fetch_ok)

\* The store in use: one add_documents call and searches, in any order.
Init ==
    /\ InitStore
    /\ vector_docs \in Tables(<<VectorDocsRows[1], VectorDocsRows[4]>>, MaxRows)
Next ==
    \/ AddDocuments({"call-1"}, FewOptions)
    \/ SimilaritySearch({"capital of France"}, {Usize(0, 0, 1), Usize(0, 0, 2)},
                        {DefaultOptions, Options(Some("docs"), None, None, None)})
Spec == Init /\ [][Next]_vars

\* Searches alone, over every table content and the single-field options.
InitSearch ==
    /\ InitStore
    /\ vector_docs \in Tables(VectorDocsRows, MaxRows)
NextSearch == SimilaritySearch(Queries, Limits, SingleOptions)
SpecSearch == InitSearch /\ [][NextSearch]_vars

\* The resolvers alone, over every combination of option values.
InitResolve == InitStore /\ vector_docs = <<>>
NextResolve ==
    \/ \E opt \in AllOptions : resolved.fn = "none" /\ resolve_filters(opt)
    \/ \E opt \in AllOptions : resolved.fn = "none" /\ resolve_name_space(opt)
    \/ \E opt \in AllOptions : resolved.fn = "none" /\ resolve_score_threshold(opt)
SpecResolve == InitResolve /\ [][NextResolve]_vars

\* Calls of drop_tables in succession, on a backend where each of the two
\* tables exists or does not.
InitTeardown ==
    /\ NoCalls
    /\ tables \in SUBSET StoreTables
    /\ embedding_table \in (IF "embedder_table" \in tables THEN {{}, {ExistingRow}} ELSE {{}})
    /\ vector_docs = <<>>
NextTeardown ==
    \/ \E stmt_ok \in BOOLEAN : drop_tables_embedder(stmt_ok)
    \/ \E stmt_ok \in BOOLEAN : drop_tables_collection(stmt_ok)
SpecTeardown == InitTeardown /\ [][NextTeardown]_vars

\* One run of the DataForSeo tool.
InitTool == InitStore /\ vector_docs = <<>>
NextTool == \E input \in ToolInputs, send_ok \in BOOLEAN, res \in Responses : run(input, send_ok, res)
SpecTool == InitTool /\ [][NextTool]_vars

\* One add_documents call whose embedder may be of another dimensionality
\* than the collection.
InitDimension == InitStore /\ vector_docs = <<>>
NextDimension ==
    AddDocuments({"call-1"}, {DefaultOptions, Options(None, None, None, Some("ragged"))})
SpecDimension == InitDimension /\ [][NextDimension]_vars

\* One add_documents call that the caller may abandon while it is in flight.
Cancel(slots) == \E c \in slots, commit_applied \in BOOLEAN : add_documents_cancel(c, commit_applied)
InitCancel == InitStore /\ vector_docs = <<>>
NextCancel == AddDocuments({"call-1"}, {DefaultOptions}) \/ Cancel({"call-1"})
SpecCancel == InitCancel /\ [][NextCancel]_vars

\* Two add_documents calls with default options, in every interleaving of
\* their steps.
InitConcurrent == InitStore /\ vector_docs = <<>>
NextConcurrent == AddDocuments(Calls, {DefaultOptions})
SpecConcurrent == InitConcurrent /\ [][NextConcurrent]_vars

\* ---------------------------------------------------------------- properties
IsOk(result) == is_some(result) /\ unwrap(result)[1] = "Ok"
IsErr(result) == is_some(result) /\ unwrap(result)[1] = "Err"
Uuids(table) == {r.uuid : r \in table}

\* call c returns in this step
Returns(c) == calls[c].pc # "done" /\ calls'[c].pc = "done"

\* C1: atomicity of add_documents.  When a call returns an error (whichever
\* row insert failed, or the commit), the embedding table holds no row of
\* the batch and is what it was; when it returns Ok, the table holds a row
\* for every identity of the batch, one per document.
C1_Atomicity ==
    [][\A c \in Calls :
          Returns(c) =>
             /\ IsErr(calls'[c].result) =>
                   /\ Uuids(embedding_table') \cap Range(calls'[c].ids) = {}
                   /\ embedding_table' = embedding_table
             /\ IsOk(calls'[c].result) =>
                   /\ Range(calls'[c].ids) \subseteq Uuids(embedding_table')
                   /\ Cardinality(Range(calls'[c].ids)) = Len(calls'[c].docs)
             /\ IsOk(calls'[c].result) \/ IsErr(calls'[c].result)]_vars

\* A call whose second INSERT failed after its first had succeeded.
C1_Witness ==
    \E c \in Calls :
        /\ calls[c].pc = "done"
        /\ calls[c].result = Some(<<"Err", BackendFailure>>)
        /\ Len(calls[c].ids) = 2
        /\ Len(calls[c].docs) = 2

\* C4: embedding-count invariant.  Whenever the embedder answers with a
\* number of vectors other than the number of documents, the call returns
\* EmbeddingCountMismatch in that same step, having begun no transaction,
\* drawn no identity and written no row.
C4_EmbeddingCount ==
    [][\A c \in Calls :
          (/\ calls[c].pc = "idle"
           /\ is_some(calls'[c].vectors)
           /\ Len(unwrap(calls'[c].vectors)) # Len(calls'[c].docs))
          => /\ calls'[c].pc = "done"
             /\ calls'[c].result = Some(<<"Err", EmbeddingCountMismatch>>)
             /\ ~calls'[c].began
             /\ calls'[c].ids = <<>>
             /\ calls'[c].tx = <<>>
             /\ embedding_table' = embedding_table]_vars

\* A call was refused for a reply one vector too long.
C4_Witness ==
    \E c \in Calls :
        /\ calls[c].result = Some(<<"Err", EmbeddingCountMismatch>>)
        /\ Len(calls[c].docs) = 1
        /\ Len(unwrap(calls[c].vectors)) = 2

\* C5: order preservation.  A call that returns Ok returns as many
\* identities as it was given documents, all different, and the table row
\* of the i-th identity holds the content of document i, the f32 cast of
\* the i-th vector the embedder gave, and the metadata of document i as
\* JSON.
C5_OrderPreservation ==
    [][\A c \in Calls :
          (Returns(c) /\ IsOk(calls'[c].result)) =>
             LET call == calls'[c]
                 ids == unwrap(call.result)[2]
             IN  /\ Len(ids) = Len(call.docs)
                 /\ \A i, j \in 1..Len(ids) : i # j => ids[i] # ids[j]
                 /\ \A i \in 1..Len(ids) :
                       \E r \in embedding_table' :
                          /\ r.uuid = ids[i]
                          /\ r.document = call.docs[i].page_content
                          /\ r.embedding =
                                [k \in 1..Len(unwrap(call.vectors)[i]) |->
                                    AsF32(unwrap(call.vectors)[i][k])]
                          /\ r.cmetadata = JsonOfMetadata(call.docs[i].metadata)
                          /\ r.collection_id = collection_uuid]_vars

\* A call returned the identities of two different documents.
C5_Witness ==
    \E c \in Calls :
        /\ calls[c].pc = "done"
        /\ IsOk(calls[c].result)
        /\ Len(calls[c].docs) = 2
        /\ calls[c].docs[1] # calls[c].docs[2]
        /\ Len(unwrap(calls[c].result)[2]) = 2

\* the rows of the embedding table nearest to q
NearestRows(table, q) ==
    {r \in table : \A o \in table :
        DistanceLeq(CosineDistance(r.embedding, q), CosineDistance(o.embedding, q))}

\* C2: insert-then-search retrievability.  A search with default options
\* and limit 1 that succeeds after an add_documents call has succeeded
\* returns exactly one document, and it is the content of a row of the
\* embedding table nearest to the query embedding.
C2_InsertThenSearch ==
    [][(/\ search.pc = "none" /\ search'.pc = "done"
        /\ search'.opt = DefaultOptions
        /\ AsI32(search'.limit) = 1
        /\ IsOk(search'.result)
        /\ \E c \in Calls : IsOk(calls[c].result) /\ Len(calls[c].docs) > 0)
       => LET found == unwrap(search'.result)[2]
          IN  /\ Len(found) = 1
              /\ found[1].page_content \in
                    {r.document : r \in NearestRows(embedding_table,
                                                    unwrap(search'.query_vector))}]_vars

\* C3: namespace isolation.  Every document a search returns is a row of
\* the namespace the search is scoped to (the name_space option, "default"
\* without one), and says so in its metadata: no row of another namespace
\* is returned, and no row written by add_documents, which takes no
\* namespace.
C3_NamespaceIsolation ==
    (search.pc = "done" /\ IsOk(search.result)) =>
        LET found == unwrap(search.result)[2]
            scope == IF is_some(search.opt.name_space)
                     THEN unwrap(search.opt.name_space) ELSE "default"
        IN  /\ Len(found) = Len(search.rows)
            /\ \A k \in 1..Len(found) :
                  /\ search.rows[k] \in 1..Len(vector_docs)
                  /\ vector_docs[search.rows[k]].namespace = scope
                  /\ found[k].page_content = vector_docs[search.rows[k]].content
                  /\ found[k].metadata = {<<"namespace", JString(scope)>>}

\* A search scoped to "docs" returned a row while the table also held a row
\* of namespace "default", after a call had committed its batch.
C3_Witness ==
    /\ search.pc = "done" /\ IsOk(search.result)
    /\ search.opt.name_space = Some("docs")
    /\ Len(unwrap(search.result)[2]) = 1
    /\ \E i \in 1..Len(vector_docs) : vector_docs[i].namespace = "default"
    /\ \E c \in Calls : IsOk(calls[c].result) /\ Len(calls[c].docs) > 0

\* ---------------------------------------------------------------- search properties
\* C6: distance ordering.  The documents of a successful search are in
\* non-decreasing distance to the query embedding, in the backend's order
\* on distances (NaN, the distance to a zero vector, after every number),
\* and the score of each is the distance of its row, untransformed.
C6_DistanceOrdering ==
    (search.pc = "done" /\ IsOk(search.result)) =>
        LET found == unwrap(search.result)[2]
            q == unwrap(search.query_vector)
        IN  /\ Len(found) = Len(search.rows)
            /\ \A k \in 1..Len(found) :
                  found[k].score = CosineDistance(vector_docs[search.rows[k]].vectors, q)
            /\ \A k \in 1..(Len(found) - 1) :
                  DistanceLeq(found[k].score, found[k + 1].score)

\* A search returned two documents at different distances.
C6_Witness ==
    /\ search.pc = "done" /\ IsOk(search.result)
    /\ Len(unwrap(search.result)[2]) = 2
    /\ unwrap(search.result)[2][1].score # unwrap(search.result)[2][2].score

\* C7: threshold validation.  A search whose score_threshold lies outside
\* [0.0, 1.0] fails with InvalidScoreThreshold before the embedder or the
\* backend is called; a search with threshold 0.0 or 1.0 is not refused
\* for its threshold.
C7_ThresholdValidation ==
    (search.pc = "done" /\ is_some(search.opt.score_threshold)) =>
        LET t == unwrap(search.opt.score_threshold)
        IN  /\ (t < 0 \/ t > 1000) =>
                  /\ search.result = Some(<<"Err", InvalidScoreThreshold>>)
                  /\ search.embed_calls = 0
                  /\ search.backend_calls = 0
            /\ t \in {0, 1000} => search.result # Some(<<"Err", InvalidScoreThreshold>>)

\* a filter object of scalar values
IsFlatObject(v) ==
    /\ v[1] = "Object"
    /\ \A i \in 1..Len(v[2]) : IsScalar(v[2][i][2])

\* C9: filters and threshold constrain search.  Every document a search
\* with filters returns carries each filter key with the filter's value in
\* its metadata, and every document a search with a threshold t > 0
\* returns has a similarity 1 - distance of at least t (a distance that is
\* not a number is left aside).
C9_FiltersConstrain ==
    (search.pc = "done" /\ IsOk(search.result)) =>
        LET found == unwrap(search.result)[2] IN
        \A k \in 1..Len(found) :
            /\ (is_some(search.opt.filters) /\ IsFlatObject(unwrap(search.opt.filters))) =>
                  Range(unwrap(search.opt.filters)[2]) \subseteq found[k].metadata
            /\ (is_some(search.opt.score_threshold)
                    /\ unwrap(search.opt.score_threshold) \in 1..1000) =>
                  \/ IsNaN(found[k].score)
                  \/ found[k].score <= 1000 - unwrap(search.opt.score_threshold)

\* C10: default namespace.  A search is scoped to the namespace the
\* resolver gives: the name_space option when there is one, the store's
\* collection name otherwise; and that namespace is never empty.
C10_DefaultNamespace ==
    search.pc = "done" =>
        /\ search.namespace = get_name_space(search.opt)
        /\ search.namespace # ""

\* ---------------------------------------------------------------- resolver properties
\* C8: filter shape validation.  get_filters answers Ok exactly for no
\* filters and for an object whose values are all scalars, and answers
\* InvalidFilterShape for every other shape.
C8_FilterShape ==
    resolved.fn = "get_filters" =>
        LET accepted == \/ resolved.opt.filters = None
                        \/ IsFlatObject(unwrap(resolved.opt.filters))
        IN  /\ accepted <=> IsOk(resolved.result)
            /\ ~accepted => resolved.result = Some(<<"Err", InvalidFilterShape>>)

\* ---------------------------------------------------------------- insert path properties
\* C11: unsupported options on insert.  A call made with score_threshold,
\* filters or name_space set returns UnsupportedOption in its first step,
\* without calling the embedder, beginning a transaction or drawing an
\* identity, and the store is as it was; a call with none of them set is
\* never answered UnsupportedOption.
C11_UnsupportedOption ==
    [][\A c \in Calls :
          (calls[c].pc = "idle" /\ calls'[c].pc # "idle") =>
             LET opt == calls'[c].opt
                 set == \/ is_some(opt.score_threshold)
                        \/ is_some(opt.filters)
                        \/ is_some(opt.name_space)
             IN  /\ set =>
                      /\ calls'[c].pc = "done"
                      /\ calls'[c].result = Some(<<"Err", UnsupportedOption>>)
                      /\ calls'[c].embed_calls = 0
                      /\ ~calls'[c].began
                      /\ calls'[c].ids = <<>>
                      /\ embedding_table' = embedding_table
                      /\ next_uuid' = next_uuid
                      /\ tables' = tables
                 /\ ~set => calls'[c].result # Some(<<"Err", UnsupportedOption>>)]_vars

\* A call with a namespace was refused although it had documents to insert.
C11_Witness ==
    \E c \in Calls :
        /\ calls[c].result = Some(<<"Err", UnsupportedOption>>)
        /\ is_some(calls[c].opt.name_space)
        /\ Len(calls[c].docs) = 2

\* the rows call c writes when all its INSERTs succeed
BatchRows(c) ==
    {EmbeddedRow(calls[c].ids[i], calls[c].docs[i], unwrap(calls[c].vectors)[i]) :
        i \in 1..Len(calls[c].ids)}

\* C12: concurrent inserts.  In every state of every interleaving of two
\* calls: the rows a call has written and not committed are its own,
\* identities are never shared between calls, a call inside its transaction
\* can always take its next step whatever the other call is doing, and the
\* committed rows beyond those the table began with are exactly the whole
\* batches of the calls that returned Ok.
C12_ConcurrentInserts ==
    /\ \A c \in Calls :
          /\ {r.uuid : r \in Range(calls[c].tx)} \subseteq Range(calls[c].ids)
          /\ \A d \in Calls \ {c} : Range(calls[c].ids) \cap Range(calls[d].ids) = {}
          /\ calls[c].pc = "tx" =>
                ENABLED (add_documents_insert(c, TRUE) \/ add_documents_commit(c, TRUE))
    /\ {r \in embedding_table : r.uuid # ExistingRow.uuid}
          = UNION {BatchRows(c) : c \in {d \in Calls : IsOk(calls[d].result)}}

\* The two calls ran interleaved, one committed its two rows and the other
\* failed at its second INSERT.
C12_Witness ==
    /\ calls["call-1"].result = Some(<<"Ok", <<1, 3>>>>)
    /\ calls["call-2"].result = Some(<<"Err", BackendFailure>>)
    /\ calls["call-2"].ids = <<2, 4>>

\* the rows of the table that carry an identity of call c
RowsOfCall(c) == {r \in embedding_table : r.uuid \in Range(calls[c].ids)}

\* a cancelled call was abandoned before its last INSERT had run
CancelledInLoop(c) ==
    Len(calls[c].ids) < ZipLen(calls[c].docs, unwrap(calls[c].vectors))

\* C13 as stated: once a call that held a transaction is abandoned, none of
\* its rows is in the table, in this state or any later one.
C13_CancellationRollsBack ==
    \A c \in Calls : calls[c].pc = "cancelled" => RowsOfCall(c) = {}

\* C13, amended: a call abandoned before its last INSERT has run leaves none
\* of its rows in the table; a call abandoned later leaves none of its rows or
\* its whole batch (the COMMIT was applied), never a part of the batch.
C13_CancellationNeverPartial ==
    \A c \in Calls : calls[c].pc = "cancelled" =>
        /\ CancelledInLoop(c) => RowsOfCall(c) = {}
        /\ RowsOfCall(c) = {} \/ RowsOfCall(c) = BatchRows(c)

\* A call of two documents abandoned after its first INSERT.
C13_Witness ==
    /\ calls["call-1"].pc = "cancelled"
    /\ Len(calls["call-1"].docs) = 2
    /\ calls["call-1"].ids = <<1>>
    /\ RowsOfCall("call-1") = {}

\* C14: idempotent teardown.  A call of drop_tables returns an error only when
\* the backend failed one of its statements, whether or not the two tables
\* exist; and whenever the last call returned Ok both tables are absent, so a
\* second call in succession returns Ok and leaves the state of the first.
C14_IdempotentTeardown ==
    /\ \A i \in 1..Len(drops.results) : IsErr(Some(drops.results[i])) <=> drops.failed[i] # 0
    /\ (/\ drops.pc = "idle"
        /\ drops.results # <<>>
        /\ IsOk(Some(drops.results[Len(drops.results)])))
          => tables = {} /\ embedding_table = {}

\* Two calls in succession have both returned Ok.
C14_Witness ==
    /\ drops.pc = "idle"
    /\ drops.results = <<<<"Ok", <<>>>>, <<"Ok", <<>>>>>>
    /\ tables = {}

\* C15: embedder failure and single round trip.  The first step of a call
\* whose options are supported calls embed_documents once, whatever the size
\* of the batch, and no later step calls it again; when that call failed,
\* add_documents returns the embedder's error in the same step, no
\* transaction was begun, no identity was drawn and the table is as it was.
C15_EmbedderRoundTrip ==
    [][\A c \in Calls :
          /\ (calls[c].pc = "idle" /\ calls'[c].pc # "idle") =>
                LET call == calls'[c] IN
                /\ ~HasUnsupportedOption(call.opt) => call.embed_calls = 1
                /\ (call.embed_calls > 0 /\ call.vectors = None) =>
                      /\ call.pc = "done"
                      /\ call.result = Some(<<"Err", EmbeddingProviderFailure>>)
                      /\ ~call.began
                      /\ call.ids = <<>>
                      /\ embedding_table' = embedding_table
                      /\ next_uuid' = next_uuid
                /\ call.result = Some(<<"Err", EmbeddingProviderFailure>>) =>
                      call.vectors = None
          /\ calls[c].pc # "idle" => calls'[c].embed_calls = calls[c].embed_calls]_vars

\* The embedder failed on a batch of two documents.
C15_Witness ==
    \E c \in Calls :
        /\ calls[c].result = Some(<<"Err", EmbeddingProviderFailure>>)
        /\ calls[c].embed_calls = 1
        /\ Len(calls[c].docs) = 2
        /\ ~calls[c].began

\* ---------------------------------------------------------------- search path properties
\* C16: per-call embedder override.  The vectors a call uses are those of the
\* embedder its options select: the override when there is one, the store's
\* embedder otherwise; for add_documents (whose embedder answered every text)
\* and for similarity_search alike.
C16_EmbedderOverride ==
    /\ \A c \in Calls :
          (is_some(calls[c].vectors) /\ ~CountMismatch(unwrap(calls[c].vectors), calls[c].docs)) =>
             unwrap(calls[c].vectors) =
                [i \in 1..Len(calls[c].docs) |->
                    EmbedText(ActiveEmbedder(calls[c].opt), calls[c].docs[i].page_content)]
    /\ is_some(search.query_vector) =>
          unwrap(search.query_vector) =
             VectorFrom(EmbedText(ActiveEmbedder(search.opt), search.query))

\* C17: limit truncation.  A search that succeeds returns min(limit, n)
\* documents, n the number of rows of the namespace searched, for every usize
\* limit; they are the nearest rows, and there is none when limit is 0 or
\* the namespace holds no row.
C17_LimitTruncation ==
    (search.pc = "done" /\ IsOk(search.result)) =>
        LET found == unwrap(search.result)[2]
            matching == WhereNamespace(vector_docs, search.namespace)
            n == Cardinality(matching)
            limit == search.limit
            q == unwrap(search.query_vector)
        IN  /\ Len(found) = IF limit.hi > 0 \/ limit.b31 > 0 \/ limit.lo >= n
                            THEN n ELSE limit.lo
            /\ \A k \in 1..Len(found) : \A i \in matching \ Range(search.rows) :
                  DistanceLeq(found[k].score, CosineDistance(vector_docs[i].vectors, q))

\* ---------------------------------------------------------------- table properties
\* C18: dimension invariant.  Every row of the embedding table has an
\* embedding of vector_dimensions components, and a call that has returned
\* after its embedder answered some document with a vector of another length
\* returned an error and none of its rows is in the table.
C18_DimensionInvariant ==
    /\ \A r \in embedding_table : Len(r.embedding) = vector_dimensions
    /\ \A c \in Calls :
          (/\ calls[c].pc = "done"
           /\ is_some(calls[c].vectors)
           /\ \E i \in 1..ZipLen(calls[c].docs, unwrap(calls[c].vectors)) :
                 Len(unwrap(calls[c].vectors)[i]) # vector_dimensions)
             => IsErr(calls[c].result) /\ RowsOfCall(c) = {}

\* A batch of two whose first vector fitted the column and whose second did
\* not: the call failed at its second INSERT and left no row.
C18_Witness ==
    /\ calls["call-1"].pc = "done"
    /\ calls["call-1"].ids = <<1, 2>>
    /\ Len(unwrap(calls["call-1"].vectors)[1]) = vector_dimensions
    /\ Len(unwrap(calls["call-1"].vectors)[2]) = 3
    /\ calls["call-1"].result = Some(<<"Err", BackendFailure>>)
    /\ RowsOfCall("call-1") = {}

\* C19: search is read-only.  A similarity_search, whatever it returns and
\* whatever state the add_documents call interleaved with it is in, changes
\* no table and no call in flight; and it can be made in every state, whether
\* or not a call holds a transaction.
C19_SearchReadOnly ==
    /\ [][search' # search =>
             /\ embedding_table' = embedding_table
             /\ vector_docs' = vector_docs
             /\ tables' = tables
             /\ calls' = calls
             /\ next_uuid' = next_uuid]_vars
    /\ [](search.pc = "none" =>
             ENABLED similarity_search("capital of France", Usize(0, 0, 1), DefaultOptions,
                                       <<"Ok", EmbedText("store", "capital of France")>>, TRUE))

\* A search failed while an add_documents call held a transaction with an
\* uncommitted row.
C19_Witness ==
    /\ search.pc = "done" /\ IsErr(search.result)
    /\ calls["call-1"].pc = "tx"
    /\ calls["call-1"].tx # <<>>

\* ---------------------------------------------------------------- tool properties
\* the items of the first result of the first task, <<>> when there is none
FirstItems(res) ==
    IF /\ is_some(res.tasks) /\ unwrap(res.tasks) # <<>>
       /\ is_some(unwrap(res.tasks)[1].result) /\ unwrap(unwrap(res.tasks)[1].result) # <<>>
       /\ is_some(unwrap(unwrap(res.tasks)[1].result)[1].items)
    THEN unwrap(unwrap(unwrap(res.tasks)[1].result)[1].items)
    ELSE <<>>

IsTitled(item) == item.title[1] = "String"

\* what the tool's result must be for a response whose status does not make
\* it an error: Ok exactly when some item is titled, and then the first 30
\* titled items in input order, each as its title and its snippet ("" when
\* the snippet is no string), separated by "\n"
ListsTitledItems(res, result) ==
    LET titled == SelectSeq(FirstItems(res), IsTitled)
        k == Min(30, Len(titled))
        out == result[2]
    IN  /\ result[1] = "Ok" <=> titled # <<>>
        /\ result[1] = "Ok" =>
              /\ Len(out) = 6 * k - 1
              /\ \A j \in 1..k :
                    /\ out[6 * (j - 1) + 1] = "Title: "
                    /\ out[6 * (j - 1) + 2] = titled[j].title[2]
                    /\ out[6 * (j - 1) + 3] = "\nSnippet: "
                    /\ out[6 * (j - 1) + 4] =
                          (IF titled[j].snippet[1] = "String" THEN titled[j].snippet[2] ELSE "")
                    /\ out[6 * (j - 1) + 5] = "\n"
                    /\ j < k => out[6 * j] = "\n"

\* a run given a non-string input failed and sent no request
RunRefusesNonString ==
    (tool.pc = "done" /\ tool.input[1] # "String") =>
        /\ tool.result = Some(<<"Err", InputNotString>>)
        /\ tool.requests = 0

\* C20 as stated: a response with a numeric status_code other than 20000 is
\* an error; every other response is Ok exactly when it has a titled item, and
\* the output lists the first 30 titled items; a non-string input is refused
\* before any request.
C20_ResultProcessing ==
    /\ RunRefusesNonString
    /\ is_some(tool.response) =>
          LET res == unwrap(tool.response)
              result == unwrap(tool.result)
          IN  IF res.status_code[1] \in {"PosInt", "NegInt", "Float"} /\ res.status_code[2] # 20000
              THEN result[1] = "Err"
              ELSE ListsTitledItems(res, result)

\* C20, amended: the status_code that makes a response an error is an
\* unsigned integer other than 20000; a negative or fractional status_code is
\* passed over like a missing one.
C20_ResultProcessingUnsigned ==
    /\ RunRefusesNonString
    /\ is_some(tool.response) =>
          LET res == unwrap(tool.response)
              result == unwrap(tool.result)
          IN  IF res.status_code[1] = "PosInt" /\ res.status_code[2] # 20000
              THEN result[1] = "Err"
              ELSE ListsTitledItems(res, result)

\* A response of 62 items of which every other one is titled: the output
\* stops at the 30th titled item.
C20_Witness ==
    /\ is_some(tool.response)
    /\ Len(FirstItems(unwrap(tool.response))) = MaxItems
    /\ Len(SelectSeq(FirstItems(unwrap(tool.response)), IsTitled)) \in 31..(MaxItems - 1)
    /\ IsOk(tool.result)
    /\ Len(unwrap(tool.result)[2]) = 179

====
